---- MODULE Spec2Model ----
(***************************************************************************)
(* A model of src/BlockChain.py: class Block (constructor, calculate_hash, *)
(* mine_block) and class Blockchain (constructor, create_genesis_block,    *)
(* get_latest_block, add_block, is_chain_valid), together with the direct  *)
(* attribute assignments that demonstrate_blockchain performs on stored    *)
(* blocks.                                                                 *)
(*                                                                         *)
(* Python objects are references: the model keeps every Block object in    *)
(* `heap` (a sequence, the object's identity is its position) and          *)
(* `chain` is the list self.chain of such identities.                      *)
(*                                                                         *)
(* hashlib.sha256(...).hexdigest() is a library function.  It is modelled  *)
(* as a deterministic function of the serialized text into strings of      *)
(* HashLen digits over an alphabet of HexBase digits (64 and 16 in the     *)
(* program).  A digest is a sequence of digits, most significant first;    *)
(* the digit 0 is the character "0".                                       *)
(*                                                                         *)
(* Specifications: Spec (one caller, one call at a time), SpecTamper       *)
(* (Spec with direct assignments to stored blocks), SpecMine (a Block      *)
(* the caller built, assigned to and mined directly), SpecBlock (the       *)
(* Block constructor alone) and SpecConc (two callers of add_block).       *)
(***************************************************************************)
EXTENDS Integers, Sequences, FiniteSets, TLC

\* ------------------------------------------------------------------ bounds
\* The digest alphabet (16 hexadecimal digits in the program).
HexBase == 2
\* The length of a digest string (64 in the program).
HashLen == 5
\* add_block is not called on a chain of MaxChain blocks.
MaxChain == 3
\* The readings of time.time() are 1 .. MaxTime.
MaxTime == 1
\* The operations a caller performs on a Block it constructed itself.
MaxDirect == 2

\* self.difficulty = 4 (Blockchain.__init__) and mine_block's default
DefaultDifficulty == 4

Main == "main"
Threads == {"main", "other"}

Min(a, b) == IF a < b THEN a ELSE b
Max(a, b) == IF a > b THEN a ELSE b

RECURSIVE Pow(_, _)
Pow(b, e) == IF e = 0 THEN 1 ELSE b * Pow(b, e - 1)

DigestSpace == Pow(HexBase, HashLen)

\* The search in mine_block has no bound of its own; the model stops a
\* search that has gone once around the whole digest space.
NonceCap == DigestSpace

\* ------------------------------------------------------------ Python values
\* A payload is a Python value: a list or a tuple of strings, or a set of
\* strings (which json cannot serialize).
PyList(items) == [kind |-> "list", items |-> items]
PyTuple(items) == [kind |-> "tuple", items |-> items]
PySet(items) == [kind |-> "set", items |-> items]

GenesisTransactions == PyList(<<"Genesis Block Transaction">>)

Payloads == {PyList(<<"A">>), PyList(<<"B">>), PyTuple(<<"A">>), PySet(<<"A">>)}

\* time.time(): a positive reading of the clock
Clock == 1 .. MaxTime

\* An optional argument: None, or a number.
None == [none |-> TRUE, v |-> 0]
Some(x) == [none |-> FALSE, v |-> x]

\* Python truthiness of an optional number: None and 0 are falsy.
Truthy(arg) == ~arg.none /\ arg.v # 0

\* ------------------------------------------------------------------ digest
\* json.dumps raises TypeError on a set.
JsonSerializable(v) == v.kind \in {"list", "tuple"}

\* json.dumps of a payload: a list and a tuple both become a JSON array, so
\* the text keeps the items and not the kind.
JsonDumpsPayload(v) == v.items

\* json.dumps({...}, sort_keys=True): the five fields in the order of their
\* sorted keys: index, nonce, previous_hash, timestamp, transactions.
BlockString(b) ==
    << b.index, b.nonce, b.previous_hash, b.timestamp, JsonDumpsPayload(b.transactions) >>

StrCode(s) ==
    CASE s = "A" -> 1
      [] s = "B" -> 2
      [] s = "Genesis Block Transaction" -> 3
      [] OTHER -> 4

RECURSIVE TextCode(_)
TextCode(items) ==
    IF items = << >> THEN 0
    ELSE 5 * TextCode(SubSeq(items, 1, Len(items) - 1)) + StrCode(items[Len(items)])

\* The number a string of digits writes in base HexBase.
RECURSIVE DigitsValue(_)
DigitsValue(ds) ==
    IF ds = << >> THEN 0
    ELSE HexBase * DigitsValue(SubSeq(ds, 1, Len(ds) - 1)) + ds[Len(ds)]

\* hexdigest(): HashLen digits, most significant first.
PlaceValue == [i \in 1 .. HashLen |-> Pow(HexBase, HashLen - i)]
HexDigest(n) == [i \in 1 .. HashLen |-> (n \div PlaceValue[i]) % HexBase]

\* sha256 of the serialized text.
Sha256(text) ==
    HexDigest((3 * text[1] + 7 * text[2] + 5 * DigitsValue(text[3])
               + 11 * text[4] + 13 * TextCode(text[5]) + 1) % DigestSpace)

\* A serializer that writes a set as an array.
CanHashSets(b) == b.transactions.kind \in {"list", "tuple", "set"}

\* A digest that also depends on the attribute hash of the block.
calculate_hashReadsHash(b) == Sha256(BlockString([b EXCEPT !.index = @ + Len(b.hash)]))

\* Block.calculate_hash: raises TypeError when the payload is not
\* serializable, otherwise returns the digest of the five fields.
CanHash(b) == JsonSerializable(b.transactions)
calculate_hash(b) == Sha256(BlockString(b))

\* hash[:d] and "0" * d
Slice(h, d) == IF d >= 0 THEN SubSeq(h, 1, Min(d, Len(h))) ELSE SubSeq(h, 1, Max(0, Len(h) + d))
Target(d) == [i \in 1 .. Max(d, 0) |-> 0]

\* A loop test that compares one character too few.
MeetsTargetShort(h, d) == Slice(h, d - 1) = Target(d - 1)

\* The loop test of mine_block is the negation of this.
MeetsTarget(h, d) == Slice(h, d) = Target(d)

\* ------------------------------------------------------------------- Block
\* Block.__init__ up to the call of calculate_hash: the timestamp argument
\* is used when it is truthy, the clock reading `now` otherwise.
BlockFields(index, previous_hash, transactions, timestamp, now) ==
    [index |-> index,
     previous_hash |-> previous_hash,
     transactions |-> transactions,
     timestamp |-> IF Truthy(timestamp) THEN timestamp.v ELSE now,
     nonce |-> 0,
     hash |-> << >>]

\* Block.__init__: the constructed object (defined when CanHash holds).
NewBlock(index, previous_hash, transactions, timestamp, now) ==
    LET b == BlockFields(index, previous_hash, transactions, timestamp, now)
    IN  [b EXCEPT !.hash = calculate_hash(b)]

\* Blockchain.create_genesis_block
create_genesis_block(now) == NewBlock(0, <<0>>, GenesisTransactions, Some(now), now)

\* ------------------------------------------------------------------- state
VARIABLES
    heap,        \* the Block objects, by identity
    chain,       \* self.chain: identities of the blocks, in order
    difficulty,  \* self.difficulty
    frame,       \* per caller: position and locals of the running call
    ret,         \* per caller: what its last statement returned or raised
    entry,       \* per caller: chain length and tip hash when add_block was called,
                 \* the block as it was when mine_block was called, and the
                 \* timestamp argument Block was called with
    tampers      \* what the caller did to Block objects directly (assignments,
                 \* mine_block calls), in order

vars == << heap, chain, difficulty, frame, ret, entry, tampers >>

NoRet == [kind |-> "none", block |-> 0, hash |-> << >>, ok |-> FALSE, at |-> 0, exc |-> "none"]
IdleFrame ==
    [pc |-> "idle", transactions |-> GenesisTransactions, index |-> 0,
     previous_hash |-> << >>, new_block |-> 0, self |-> 0, difficulty |-> 0,
     caller |-> "none"]
NoBlock == BlockFields(0, << >>, GenesisTransactions, None, 0)
NoEntry == [len |-> 0, tip_hash |-> << >>, block |-> NoBlock, d |-> 0, timestamp |-> None]

Blk(i) == heap[chain[i]]

\* A constructor that starts from an empty list.
InitNoGenesis ==
    /\ heap = << >>
    /\ chain = << >>
    /\ difficulty = DefaultDifficulty
    /\ frame = [t \in Threads |-> IdleFrame]
    /\ ret = [t \in Threads |-> NoRet]
    /\ entry = [t \in Threads |-> NoEntry]
    /\ tampers = << >>

\* Blockchain.__init__
Init ==
    /\ \E now \in Clock : heap = << create_genesis_block(now) >>
    /\ chain = <<1>>
    /\ difficulty = DefaultDifficulty
    /\ frame = [t \in Threads |-> IdleFrame]
    /\ ret = [t \in Threads |-> NoRet]
    /\ entry = [t \in Threads |-> NoEntry]
    /\ tampers = << >>

AllIdle == \A t \in Threads : frame[t].pc = "idle"

Returned(kind) == [NoRet EXCEPT !.kind = kind]
Raised(exc) == [NoRet EXCEPT !.kind = "raise", !.exc = exc]

\* ----------------------------------------------------------- mine_block
\* The loop body with its two lines swapped: the hash is recomputed before
\* the nonce is incremented.
MineIterStale(b) == [b EXCEPT !.hash = calculate_hash(b), !.nonce = @ + 1]

\* A loop body that steps over every other nonce.
MineIterSkips(b) ==
    LET b1 == [b EXCEPT !.nonce = @ + 2]
    IN  [b1 EXCEPT !.hash = calculate_hash(b1)]

\* A loop body that also stamps the block anew on every pass.
MineIterRestamps(b) ==
    LET b1 == [b EXCEPT !.nonce = @ + 1, !.timestamp = @ + 1]
    IN  [b1 EXCEPT !.hash = calculate_hash(b1)]

\* One pass of the loop body (lines 50-51) on a block whose payload can be
\* serialized.
MineIter(b) ==
    LET b1 == [b EXCEPT !.nonce = @ + 1]
    IN  [b1 EXCEPT !.hash = calculate_hash(b1)]

\* The block as the loop of mine_block(d) leaves it when entered on b, if it
\* leaves by its return within k passes; NoBlock if it does not.  The loop
\* leaves at once when the stored hash meets the target; otherwise its
\* passes reach the nonces above b.nonce one after the other, each storing
\* the digest of the nonce it reaches, and it leaves after the first pass
\* whose digest meets the target.
Mined(b, d, k) ==
    IF MeetsTarget(b.hash, d) THEN b
    ELSE LET Pass(n) == MineIter([b EXCEPT !.nonce = n - 1])
             Leaves(n) == MeetsTarget(Pass(n).hash, d)
             tried == b.nonce + 1 .. b.nonce + k
         IN  IF CanHash(b) /\ \E n \in tried : Leaves(n)
             THEN Pass(CHOOSE n \in tried :
                          Leaves(n) /\ \A m \in b.nonce + 1 .. n - 1 : ~Leaves(m))
             ELSE NoBlock

\* The loop test of line 49 holds: the body runs once.  calculate_hash
\* raises after the nonce was incremented when the payload is not
\* serializable.
MineStep(t) ==
    /\ frame[t].pc = "l49"
    /\ LET id == frame[t].self
           b == heap[id]
       IN  /\ ~MeetsTarget(b.hash, frame[t].difficulty)
           /\ b.nonce < NonceCap
           /\ IF CanHash(b)
              THEN /\ heap' = [heap EXCEPT ![id] = MineIter(b)]
                   /\ UNCHANGED << frame, ret >>
              ELSE /\ heap' = [heap EXCEPT ![id].nonce = @ + 1]
                   /\ frame' = [frame EXCEPT ![t] = IdleFrame]
                   /\ ret' = [ret EXCEPT ![t] = Raised("TypeError")]
    /\ UNCHANGED << chain, difficulty, entry, tampers >>

\* The loop test fails: mine_block returns self.hash (line 53), to add_block
\* (line 90) or to the caller that called it directly.
MineReturn(t) ==
    /\ frame[t].pc = "l49"
    /\ MeetsTarget(heap[frame[t].self].hash, frame[t].difficulty)
    /\ IF frame[t].caller = "add_block"
       THEN /\ frame' = [frame EXCEPT ![t].pc = "l92"]
            /\ UNCHANGED ret
       ELSE /\ frame' = [frame EXCEPT ![t] = IdleFrame]
            /\ ret' = [ret EXCEPT ![t] =
                          [Returned("mine_block") EXCEPT
                              !.block = frame[t].self,
                              !.hash = heap[frame[t].self].hash]]
    /\ UNCHANGED << heap, chain, difficulty, entry, tampers >>

\* ------------------------------------------------------------ Blockchain
\* A get_latest_block that returns the first element: self.chain[0].
get_latest_blockFirst(c) ==
    IF Len(c) = 0 THEN Raised("IndexError") ELSE [Returned("get_latest_block") EXCEPT !.block = c[1]]

\* get_latest_block: self.chain[-1], an IndexError on an empty list.
get_latest_block(c) ==
    IF Len(c) = 0 THEN Raised("IndexError") ELSE [Returned("get_latest_block") EXCEPT !.block = c[Len(c)]]

\* An insertion at the front instead of the end.
ListPrepend(c, x) == << x >> \o c

\* list.append
ListAppend(c, x) == Append(c, x)

\* A line 86 that counts the new block in: index = len(self.chain) + 1.
AddBlock86CountsNewBlock(t, p) ==
    /\ frame[t].pc = "idle"
    /\ tampers = << >>
    /\ Len(chain) < MaxChain
    /\ frame' = [frame EXCEPT ![t] =
                    [IdleFrame EXCEPT !.pc = "l87", !.transactions = p,
                                      !.index = Len(chain) + 1, !.caller = "add_block"]]
    /\ ret' = [ret EXCEPT ![t] = NoRet]
    /\ entry' = [entry EXCEPT ![t] = [NoEntry EXCEPT !.len = Len(chain),
                                                     !.tip_hash = Blk(Len(chain)).hash]]
    /\ UNCHANGED << heap, chain, difficulty, tampers >>

\* add_block is called with payload p; line 86: index = len(self.chain).
\* The caller extends the chain before it assigns to any block, as
\* demonstrate_blockchain does.
AddBlock86(t, p) ==
    /\ frame[t].pc = "idle"
    /\ tampers = << >>
    /\ Len(chain) < MaxChain
    /\ frame' = [frame EXCEPT ![t] =
                    [IdleFrame EXCEPT !.pc = "l87", !.transactions = p,
                                      !.index = Len(chain), !.caller = "add_block"]]
    /\ ret' = [ret EXCEPT ![t] = NoRet]
    /\ entry' = [entry EXCEPT ![t] = [NoEntry EXCEPT !.len = Len(chain),
                                                     !.tip_hash = Blk(Len(chain)).hash]]
    /\ UNCHANGED << heap, chain, difficulty, tampers >>

\* line 87: previous_hash = self.get_latest_block().hash
AddBlock87(t) ==
    /\ frame[t].pc = "l87"
    /\ LET r == get_latest_block(chain)
       IN  IF r.kind = "raise"
           THEN /\ frame' = [frame EXCEPT ![t] = IdleFrame]
                /\ ret' = [ret EXCEPT ![t] = r]
           ELSE /\ frame' = [frame EXCEPT ![t].pc = "l89",
                                          ![t].previous_hash = heap[r.block].hash]
                /\ UNCHANGED ret
    /\ UNCHANGED << heap, chain, difficulty, entry, tampers >>

\* Line 89 with the append of line 92 done before mining.
AddBlock89AppendsEarly(t) ==
    /\ frame[t].pc = "l89"
    /\ CanHash(BlockFields(frame[t].index, frame[t].previous_hash, frame[t].transactions, None, 1))
    /\ \E now \in Clock :
         /\ heap' = Append(heap, NewBlock(frame[t].index, frame[t].previous_hash,
                                          frame[t].transactions, None, now))
         /\ chain' = Append(chain, Len(heap) + 1)
         /\ frame' = [frame EXCEPT ![t].pc = "l49",
                                   ![t].new_block = Len(heap) + 1,
                                   ![t].self = Len(heap) + 1,
                                   ![t].difficulty = difficulty]
         /\ entry' = [entry EXCEPT ![t].block = NewBlock(frame[t].index, frame[t].previous_hash,
                                                         frame[t].transactions, None, now),
                                   ![t].d = difficulty]
    /\ UNCHANGED << ret, difficulty, tampers >>

\* line 89: new_block = Block(index, previous_hash, transactions), and the
\* call of line 90 with self.difficulty.  A TypeError of calculate_hash in
\* the constructor leaves add_block.
AddBlock89(t) ==
    /\ frame[t].pc = "l89"
    /\ \E now \in Clock :
         LET f == BlockFields(frame[t].index, frame[t].previous_hash,
                              frame[t].transactions, None, now)
             b == NewBlock(frame[t].index, frame[t].previous_hash,
                           frame[t].transactions, None, now)
         IN  IF CanHash(f)
             THEN /\ heap' = Append(heap, b)
                  /\ frame' = [frame EXCEPT ![t].pc = "l49",
                                            ![t].new_block = Len(heap) + 1,
                                            ![t].self = Len(heap) + 1,
                                            ![t].difficulty = difficulty]
                  /\ entry' = [entry EXCEPT ![t].block = b, ![t].d = difficulty]
                  /\ UNCHANGED ret
             ELSE /\ frame' = [frame EXCEPT ![t] = IdleFrame]
                  /\ ret' = [ret EXCEPT ![t] = Raised("TypeError")]
                  /\ UNCHANGED << heap, entry >>
    /\ UNCHANGED << chain, difficulty, tampers >>

\* Lines 92-93 appending only when the chain still has the length read at
\* line 86, and returning without an append otherwise.
AddBlock92IfUnchanged(t) ==
    /\ frame[t].pc = "l92"
    /\ chain' = IF Len(chain) = frame[t].index
                THEN ListAppend(chain, frame[t].new_block) ELSE chain
    /\ ret' = [ret EXCEPT ![t] = [Returned("add_block") EXCEPT !.block = frame[t].new_block]]
    /\ frame' = [frame EXCEPT ![t] = IdleFrame]
    /\ UNCHANGED << heap, difficulty, entry, tampers >>

\* lines 92-93: self.chain.append(new_block); return new_block
AddBlock92(t) ==
    /\ frame[t].pc = "l92"
    /\ chain' = ListAppend(chain, frame[t].new_block)
    /\ ret' = [ret EXCEPT ![t] = [Returned("add_block") EXCEPT !.block = frame[t].new_block]]
    /\ frame' = [frame EXCEPT ![t] = IdleFrame]
    /\ UNCHANGED << heap, difficulty, entry, tampers >>

\* A scan without the integrity check of lines 112-114.
RECURSIVE ScanFromLinkOnly(_, _)
ScanFromLinkOnly(self, i) ==
    IF i > Len(self.chain) THEN [out |-> "true", at |-> i]
    ELSE IF self.heap[self.chain[i]].previous_hash # self.heap[self.chain[i - 1]].hash
            THEN [out |-> "false", at |-> i]
         ELSE ScanFromLinkOnly(self, i + 1)

\* A scan without the linkage check of lines 108-110.
RECURSIVE ScanFromHashOnly(_, _)
ScanFromHashOnly(self, i) ==
    IF i > Len(self.chain) THEN [out |-> "true", at |-> i]
    ELSE LET current_block == self.heap[self.chain[i]]
         IN  IF ~CanHash(current_block)
                THEN [out |-> "raise", at |-> i]
             ELSE IF current_block.hash # calculate_hash(current_block)
                THEN [out |-> "false", at |-> i]
             ELSE ScanFromHashOnly(self, i + 1)

\* A scan that also requires every scanned block to meet the difficulty target.
RECURSIVE ScanFromProofOfWork(_, _)
ScanFromProofOfWork(self, i) ==
    IF i > Len(self.chain) THEN [out |-> "true", at |-> i]
    ELSE LET current_block == self.heap[self.chain[i]]
             previous_block == self.heap[self.chain[i - 1]]
         IN  IF current_block.previous_hash # previous_block.hash
                THEN [out |-> "false", at |-> i]
             ELSE IF ~CanHash(current_block)
                THEN [out |-> "raise", at |-> i]
             ELSE IF current_block.hash # calculate_hash(current_block)
                THEN [out |-> "false", at |-> i]
             ELSE IF ~MeetsTarget(current_block.hash, self.difficulty)
                THEN [out |-> "false", at |-> i]
             ELSE ScanFromProofOfWork(self, i + 1)

\* The scan of is_chain_valid from position i (1-based; range(1, len) is
\* 2 .. Len).  The outcome is "true", "false" or "raise" (a TypeError of
\* calculate_hash), with the position at which the scan stopped.
RECURSIVE ScanFrom(_, _)
ScanFrom(self, i) ==
    IF i > Len(self.chain) THEN [out |-> "true", at |-> i]
    ELSE LET current_block == self.heap[self.chain[i]]
             previous_block == self.heap[self.chain[i - 1]]
         IN  IF current_block.previous_hash # previous_block.hash
                THEN [out |-> "false", at |-> i]
             ELSE IF ~CanHash(current_block)
                THEN [out |-> "raise", at |-> i]
             ELSE IF current_block.hash # calculate_hash(current_block)
                THEN [out |-> "false", at |-> i]
             ELSE ScanFrom(self, i + 1)

\* A scan that starts one block too late: range(2, len(self.chain)).
is_chain_validSkipsFirst(self) == ScanFrom(self, 3)

\* An is_chain_valid that also recomputes the digest of the genesis block.
is_chain_validChecksGenesis(self) ==
    LET genesis == self.heap[self.chain[1]]
    IN  IF ~CanHash(genesis) THEN [out |-> "raise", at |-> 1]
        ELSE IF genesis.hash # calculate_hash(genesis) THEN [out |-> "false", at |-> 1]
        ELSE ScanFrom(self, 2)

\* Blockchain.is_chain_valid on the object self (its attributes chain and
\* difficulty, and the blocks they refer to).
is_chain_valid(self) == ScanFrom(self, 2)

Self == [heap |-> heap, chain |-> chain, difficulty |-> difficulty]

GetLatestBlockCall(t) ==
    /\ AllIdle
    /\ ret' = [ret EXCEPT ![t] = get_latest_block(chain)]
    /\ UNCHANGED << heap, chain, difficulty, frame, entry, tampers >>

IsChainValidCall(t) ==
    /\ AllIdle
    /\ LET r == is_chain_valid(Self)
       IN  ret' = [ret EXCEPT ![t] =
                      IF r.out = "raise" THEN [Raised("TypeError") EXCEPT !.at = r.at]
                      ELSE [Returned("is_chain_valid") EXCEPT
                               !.ok = (r.out = "true"), !.at = r.at]]
    /\ UNCHANGED << heap, chain, difficulty, frame, entry, tampers >>

\* ------------------------------------------------- sequential use (Spec)
\* One caller, one call at a time: add_block, get_latest_block and
\* is_chain_valid on a chain nobody assigns to directly.
AddBlock(t) ==
    \/ \E p \in Payloads : AddBlock86(t, p)
    \/ AddBlock87(t)
    \/ AddBlock89(t)
    \/ MineStep(t)
    \/ MineReturn(t)
    \/ AddBlock92(t)

Next ==
    \/ AddBlock(Main)
    \/ GetLatestBlockCall(Main)
    \/ IsChainValidCall(Main)

Spec == Init /\ [][Next]_vars

\* ------------------------------------------- direct assignment (SpecTamper)
\* The caller holds references to the stored blocks and assigns to their
\* attributes between calls.  The tampering is that of
\* demonstrate_blockchain, at any block of any chain and with any payload:
\* one assignment to a block's payload, followed or not by the assignment
\* of the recomputed digest to that block's hash.  Each assignment is logged
\* with what is_chain_valid() would have returned before it and the hash the
\* block stored before it.
Logged(op, i) ==
    [op |-> op, i |-> i, valid_before |-> is_chain_valid(Self).out,
     hash_before |-> Blk(i).hash, len |-> Len(chain)]

\* line 157: the payload of the block at position i (1-based) becomes p.
SetTransactions(i, p) ==
    /\ AllIdle
    /\ tampers = << >>
    /\ i \in 1 .. Len(chain)
    /\ p # Blk(i).transactions
    /\ heap' = [heap EXCEPT ![chain[i]].transactions = p]
    /\ tampers' = Append(tampers, Logged("transactions", i))
    /\ ret' = [t \in Threads |-> NoRet]
    /\ UNCHANGED << chain, difficulty, frame, entry >>

\* line 160: chain[i].hash = chain[i].calculate_hash(); nothing is assigned
\* when calculate_hash raises.
RecomputeHash(i) ==
    /\ AllIdle
    /\ Len(tampers) = 1 /\ tampers[1].op = "transactions" /\ tampers[1].i = i
    /\ i \in 1 .. Len(chain)
    /\ IF CanHash(Blk(i))
       THEN /\ heap' = [heap EXCEPT ![chain[i]].hash = calculate_hash(Blk(i))]
            /\ tampers' = Append(tampers, Logged("hash", i))
       ELSE /\ tampers' = Append(tampers, Logged("raise", i))
            /\ UNCHANGED heap
    /\ ret' = [t \in Threads |-> NoRet]
    /\ UNCHANGED << chain, difficulty, frame, entry >>

\* The values a caller assigns to the attribute f of a block.
FieldValues(f) == IF f = "previous_hash" THEN {<<0>>, <<1>>} ELSE 0 .. 1

\* chain[i].f = v for an attribute f other than the payload and the hash
\* (index, previous_hash, timestamp, nonce), before or after the payload
\* assignment.
AssignField(i, f, v) ==
    /\ AllIdle
    /\ Len(tampers) <= 1
    /\ \A k \in 1 .. Len(tampers) : tampers[k].op = "transactions"
    /\ i \in 1 .. Len(chain)
    /\ v # Blk(i)[f]
    /\ heap' = [heap EXCEPT ![chain[i]][f] = v]
    /\ tampers' = Append(tampers, Logged(f, i))
    /\ ret' = [t \in Threads |-> NoRet]
    /\ UNCHANGED << chain, difficulty, frame, entry >>

Tamper ==
    \/ \E i \in 1 .. MaxChain, p \in Payloads : SetTransactions(i, p)
    \/ \E i \in 1 .. MaxChain : RecomputeHash(i)
    \/ \E f \in {"index", "previous_hash", "timestamp", "nonce"} :
          \E v \in FieldValues(f) : AssignField(1, f, v)

NextTamper == Next \/ Tamper

SpecTamper == Init /\ [][NextTamper]_vars

\* ------------------------------------------------ Block alone (SpecMine)
\* The caller constructs a Block itself, assigns to its payload and calls
\* mine_block(d) on it, for any d, MaxDirect such operations in all.  The
\* block is the second object of the heap; the chain stays as constructed.
Difficulties == 0 .. HashLen + 1
TimestampArgs == {None} \cup {Some(x) : x \in 0 .. MaxTime}

InitMine ==
    /\ \E now \in Clock, p \in {q \in Payloads : JsonSerializable(q)}, ts \in TimestampArgs :
          LET g == create_genesis_block(now)
          IN  heap = << g, NewBlock(1, g.hash, p, ts, now) >>
    /\ chain = <<1>>
    /\ difficulty = DefaultDifficulty
    /\ frame = [t \in Threads |-> IdleFrame]
    /\ ret = [t \in Threads |-> NoRet]
    /\ entry = [t \in Threads |-> NoEntry]
    /\ tampers = << >>

\* block.transactions = p on the object id
AssignTransactions(id, p) ==
    /\ AllIdle
    /\ Len(tampers) < MaxDirect
    /\ id \in 1 .. Len(heap)
    /\ p # heap[id].transactions
    /\ heap' = [heap EXCEPT ![id].transactions = p]
    /\ tampers' = Append(tampers, [op |-> "transactions", i |-> id, valid_before |-> "none",
                                   hash_before |-> heap[id].hash, len |-> Len(chain)])
    /\ ret' = [t \in Threads |-> NoRet]
    /\ UNCHANGED << chain, difficulty, frame, entry >>

\* block.mine_block(d) is called on the object id.
MineBlockCall(t, id, d) ==
    /\ AllIdle
    /\ Len(tampers) < MaxDirect
    /\ id \in 1 .. Len(heap)
    /\ frame' = [frame EXCEPT ![t] =
                    [IdleFrame EXCEPT !.pc = "l49", !.self = id, !.difficulty = d,
                                      !.caller = "direct"]]
    /\ entry' = [entry EXCEPT ![t] = [NoEntry EXCEPT !.block = heap[id], !.d = d]]
    /\ ret' = [ret EXCEPT ![t] = NoRet]
    /\ tampers' = Append(tampers, [op |-> "mine_block", i |-> id, valid_before |-> "none",
                                   hash_before |-> heap[id].hash, len |-> Len(chain)])
    /\ UNCHANGED << heap, chain, difficulty >>

\* block.calculate_hash() is called on the object id and its result is not
\* assigned to anything.
CalculateHashCall(t, id) ==
    /\ AllIdle
    /\ id \in 1 .. Len(heap)
    /\ ret' = [ret EXCEPT ![t] =
                  IF CanHash(heap[id])
                  THEN [Returned("calculate_hash") EXCEPT
                           !.block = id, !.hash = calculate_hash(heap[id])]
                  ELSE Raised("TypeError")]
    /\ UNCHANGED << heap, chain, difficulty, frame, entry, tampers >>

NextMine ==
    \/ \E p \in Payloads : AssignTransactions(2, p)
    \/ \E d \in Difficulties : MineBlockCall(Main, 2, d)
    \/ CalculateHashCall(Main, 2)
    \/ MineStep(Main)
    \/ MineReturn(Main)

SpecMine == InitMine /\ [][NextMine]_vars

\* -------------------------------------------- two callers (SpecConc)
\* Two threads call add_block on the same Blockchain object with nothing to
\* keep the calls apart: the lines of one call interleave with the lines of
\* the other.  is_chain_valid is called when no add_block is running.
\* The passes of a search read and write only the caller's own new block,
\* which no other caller can reach before line 92, so the whole search of a
\* call is one step here.
Other == "other"

\* line 90 inside add_block: mine_block(self.difficulty) from its first loop
\* test to its return.
MineRun(t) ==
    /\ frame[t].pc = "l49"
    /\ frame[t].caller = "add_block"
    /\ LET id == frame[t].self
           mined == Mined(heap[id], frame[t].difficulty, DigestSpace)
       IN  /\ mined # NoBlock
           /\ heap' = [heap EXCEPT ![id] = mined]
    /\ frame' = [frame EXCEPT ![t].pc = "l92"]
    /\ UNCHANGED << chain, difficulty, ret, entry, tampers >>

\* Caller t has called add_block.
Called(t) == entry[t].len > 0

\* The first caller calls add_block any number of times, the second once,
\* at any moment; each adds a payload of its own.
NextConc ==
    \/ AddBlock86(Main, PyList(<<"A">>))
    \/ ~Called(Other) /\ AddBlock86(Other, PyList(<<"B">>))
    \/ \E t \in Threads : AddBlock87(t)
    \/ \E t \in Threads : AddBlock89(t)
    \/ \E t \in Threads : MineRun(t)
    \/ \E t \in Threads : AddBlock92(t)
    \/ IsChainValidCall(Main)

SpecConc == Init /\ [][NextConc]_vars

\* ------------------------------------------------ Block(...) (SpecBlock)
\* The caller constructs one Block itself, with any index, previous_hash and
\* payload, and with or without a timestamp; a supplied timestamp is any
\* number from 0 up, readings of the clock and other values.
SuppliedTimestamps == {None} \cup {Some(x) : x \in 0 .. MaxTime + 1}

\* Block(index, previous_hash, transactions, timestamp): lines 15-20.  The
\* TypeError of calculate_hash (line 20) leaves no object behind.
BlockCall(t, index, previous_hash, transactions, timestamp) ==
    /\ AllIdle
    /\ Len(heap) = 1
    /\ \E now \in Clock :
         IF CanHash(BlockFields(index, previous_hash, transactions, timestamp, now))
         THEN /\ heap' = Append(heap, NewBlock(index, previous_hash, transactions,
                                               timestamp, now))
              /\ ret' = [ret EXCEPT ![t] = [Returned("Block") EXCEPT !.block = Len(heap) + 1]]
         ELSE /\ ret' = [ret EXCEPT ![t] = Raised("TypeError")]
              /\ UNCHANGED heap
    /\ entry' = [entry EXCEPT ![t] = [NoEntry EXCEPT !.timestamp = timestamp]]
    /\ UNCHANGED << chain, difficulty, frame, tampers >>

NextBlock ==
    \E index \in 0 .. MaxChain, previous_hash \in {<<0>>, heap[1].hash, Target(HashLen)},
       transactions \in Payloads, timestamp \in SuppliedTimestamps :
        BlockCall(Main, index, previous_hash, transactions, timestamp)

SpecBlock == Init /\ [][NextBlock]_vars

\* ------------------------------------------------------------------ claims
Range(s) == {s[i] : i \in 1 .. Len(s)}

\* The first d characters of h exist and are all "0".
LeadingZeros(h, d) == Len(h) >= d /\ \A i \in 1 .. d : h[i] = 0

\* C1: a completed add_block(p) on a chain of length n >= 1 leaves a chain of
\* length n+1; the returned block is the last element, the one
\* get_latest_block() returns, and its previous_hash is the hash the tip had
\* when add_block was called.
C1_AddBlockGrowth ==
    \A t \in Threads :
        ret[t].kind = "add_block" =>
            /\ entry[t].len >= 1
            /\ Len(chain) = entry[t].len + 1
            /\ ret[t].block = chain[Len(chain)]
            /\ get_latest_block(chain).kind = "get_latest_block"
            /\ get_latest_block(chain).block = ret[t].block
            /\ heap[ret[t].block].previous_hash = entry[t].tip_hash
            /\ heap[ret[t].block].transactions \in Payloads

C1_Witness == ret[Main].kind = "add_block" /\ entry[Main].len = 2 /\ Len(chain) = 3

\* C2: in every state reached from construction by sequential add_block calls
\* is_chain_valid() returns true, the genesis-only chain included.
C2_AlwaysValid ==
    /\ AllIdle => is_chain_valid(Self).out = "true"
    /\ \A t \in Threads : ret[t].kind = "is_chain_valid" => ret[t].ok

C2_Witness ==
    /\ ret[Main].kind = "is_chain_valid" /\ ret[Main].ok
    /\ Len(chain) = 3
    /\ \E i \in 2 .. Len(chain) : Blk(i).nonce > 0

\* C7: every block add_block appended to a chain of difficulty d has a
\* stored hash whose first d characters are "0"; without tampering this holds
\* of every non-genesis block in every reachable state.
C7_AppendedMeetDifficulty ==
    \A i \in 2 .. Len(chain) : LeadingZeros(Blk(i).hash, difficulty)

C7_Witness ==
    /\ Len(chain) = 3
    /\ difficulty = DefaultDifficulty
    /\ \A i \in 2 .. 3 : Blk(i).nonce > 0
    /\ ~LeadingZeros(Blk(1).hash, difficulty)

\* The genesis block as the constructor leaves it.
IsGenesis(b) ==
    /\ b.index = 0
    /\ b.previous_hash = <<0>>
    /\ b.nonce = 0
    /\ CanHash(b) /\ b.hash = calculate_hash(b)

\* C8: the chain is never empty: after construction it holds exactly the
\* genesis block (index 0, previous_hash "0", nonce 0, hash equal to its
\* digest), no call reduces its length, and get_latest_block() never raises.
C8_NeverEmpty ==
    /\ (Len(chain) = 1 /\ IsGenesis(Blk(1)))
    /\ [](/\ Len(chain) >= 1
          /\ get_latest_block(chain).kind = "get_latest_block"
          /\ \A t \in Threads : ret[t].exc # "IndexError")
    /\ [][Len(chain') >= Len(chain)]_vars

C8_Witness ==
    /\ ret[Main].kind = "get_latest_block"
    /\ ret[Main].block = chain[Len(chain)]
    /\ Len(chain) = 3

\* C9: add_block changes the chain only by appending one block, whose mining
\* is complete, at the end; the blocks already in the chain keep their
\* position and their six fields, and a block that is still being mined is
\* never in the chain.
C9_AppendOnly ==
    /\ [](\A t \in Threads :
            frame[t].pc \in {"l49", "l92"} => frame[t].new_block \notin Range(chain))
    /\ [][\/ /\ chain' = chain
             /\ \A i \in 1 .. Len(chain) : heap'[chain[i]] = heap[chain[i]]
          \/ \E t \in Threads :
                /\ frame[t].pc = "l92"
                /\ chain' = Append(chain, frame[t].new_block)
                /\ heap' = heap
                /\ LET b == heap[frame[t].new_block]
                   IN  /\ LeadingZeros(b.hash, difficulty)
                       /\ b.hash = calculate_hash(b)]_vars

C9_Witness ==
    /\ frame[Main].pc = "l49"
    /\ heap[frame[Main].new_block].nonce > 0
    /\ Len(chain) = 2
    /\ frame[Main].new_block \notin Range(chain)

\* Both checks of is_chain_valid pass at position i of the chain of self.
LinkOk(self, i) == self.heap[self.chain[i]].previous_hash = self.heap[self.chain[i - 1]].hash
HashOk(self, i) ==
    /\ CanHash(self.heap[self.chain[i]])
    /\ self.heap[self.chain[i]].hash = calculate_hash(self.heap[self.chain[i]])
BlockOk(self, i) == LinkOk(self, i) /\ HashOk(self, i)

\* A check fails at position i: the linkage check, or the integrity check on
\* a digest that could be computed.
CheckFails(self, i) ==
    \/ ~LinkOk(self, i)
    \/ /\ CanHash(self.heap[self.chain[i]])
       /\ self.heap[self.chain[i]].hash # calculate_hash(self.heap[self.chain[i]])

\* The step assigned payload p to the block at position i and nothing else.
PayloadChanged(i, p) ==
    /\ i \in 1 .. Len(chain)
    /\ chain' = chain
    /\ p # Blk(i).transactions
    /\ heap' = [heap EXCEPT ![chain[i]].transactions = p]

\* C3 as stated: on a valid chain of at least 2 blocks, changing the payload
\* of a non-genesis block and nothing else makes is_chain_valid() return
\* false.
C3_Original ==
    [][\A i \in 2 .. MaxChain, p \in Payloads :
          (PayloadChanged(i, p) /\ is_chain_valid(Self).out = "true")
              => is_chain_valid(Self').out = "false"]_vars

\* C3, amended: on a valid chain of at least 2 blocks, changing the payload
\* of a non-genesis block, and nothing else, to a serializable value whose
\* digest differs from the block's stored hash makes is_chain_valid() return
\* false, and the scan stops at that block.
C3_TamperDetected ==
    [][\A i \in 2 .. MaxChain, p \in Payloads :
          (/\ PayloadChanged(i, p)
           /\ is_chain_valid(Self).out = "true"
           /\ JsonSerializable(p)
           /\ calculate_hash([Blk(i) EXCEPT !.transactions = p]) # Blk(i).hash)
              => /\ is_chain_valid(Self').out = "false"
                 /\ is_chain_valid(Self').at = i]_vars

C3_Witness ==
    /\ Len(tampers) = 1
    /\ tampers[1].op = "transactions" /\ tampers[1].i = 2 /\ tampers[1].valid_before = "true"
    /\ Len(chain) = 3
    /\ ret[Main].kind = "is_chain_valid" /\ ~ret[Main].ok /\ ret[Main].at = 2

\* The last two direct assignments changed the payload of the block at
\* position i of a valid chain and then set its hash to the recomputed digest.
RehashedAfterChange(i) ==
    /\ Len(tampers) >= 2
    /\ LET a == tampers[Len(tampers) - 1]
           b == tampers[Len(tampers)]
       IN  /\ a.op = "transactions" /\ a.i = i /\ a.valid_before = "true"
           /\ b.op = "hash" /\ b.i = i
           /\ a.len = Len(chain)

\* The hash the block stored before its payload was changed.
HashBeforeChange == tampers[Len(tampers) - 1].hash_before

\* C4 as stated: on a valid chain of at least 2 blocks, for any non-genesis
\* block, changing its payload and then setting its hash to the recomputed
\* digest, nothing else changed, makes is_chain_valid() return false.
C4_Original ==
    \A i \in 2 .. Len(chain) :
        RehashedAfterChange(i) => is_chain_valid(Self).out = "false"

\* C4, amended: the same for a non-genesis block that is not the last block
\* of the chain and whose recomputed digest differs from the hash it stored
\* before; the scan then stops at the next block, whose previous_hash no
\* longer matches.  (For the last block the chain is valid again.)
C4_RehashBreaksLink ==
    \A i \in 2 .. Len(chain) :
        RehashedAfterChange(i) =>
            /\ (i < Len(chain) /\ Blk(i).hash # HashBeforeChange)
                  => /\ is_chain_valid(Self).out = "false"
                     /\ is_chain_valid(Self).at = i + 1
            /\ i = Len(chain) => is_chain_valid(Self).out = "true"

C4_Witness ==
    /\ Len(chain) = 3
    /\ RehashedAfterChange(2)
    /\ Blk(2).hash # HashBeforeChange
    /\ ret[Main].kind = "is_chain_valid" /\ ~ret[Main].ok /\ ret[Main].at = 3

\* C6: is_chain_valid() returns true exactly when at every position i from 1
\* to len-1 (0-based) previous_hash equals the predecessor's hash and hash
\* equals the recomputed digest; it returns false at the first position where
\* a check fails.
C6_ValidIffAllChecks ==
    LET r == is_chain_valid(Self)
    IN  AllIdle =>
        /\ (r.out = "true") <=> (\A i \in 2 .. Len(chain) : BlockOk(Self, i))
        /\ \A i \in 2 .. Len(chain) :
              (CheckFails(Self, i) /\ \A j \in 2 .. i - 1 : BlockOk(Self, j))
                  => (r.out = "false" /\ r.at = i)
        /\ r.out = "false" => (r.at \in 2 .. Len(chain) /\ CheckFails(Self, r.at))
        /\ \A t \in Threads :
              ret[t].kind = "is_chain_valid"
                  => (ret[t].ok <=> r.out = "true") /\ ret[t].at = r.at

C6_Witness ==
    /\ Len(chain) = 3
    /\ BlockOk(Self, 2)
    /\ ~LinkOk(Self, 3)
    /\ ret[Main].kind = "is_chain_valid" /\ ~ret[Main].ok /\ ret[Main].at = 3

\* C10: is_chain_valid() does not look at the proof-of-work target: its
\* result is the same for every value of the chain's difficulty, and it is
\* true for a chain with consistent linkage and hashes even when a
\* non-genesis block's hash does not begin with `difficulty` zeros.
C10_IgnoresDifficulty ==
    LET r == is_chain_valid(Self)
    IN  AllIdle =>
        /\ \A d \in Difficulties : is_chain_valid([Self EXCEPT !.difficulty = d]) = r
        /\ (\A i \in 2 .. Len(chain) : BlockOk(Self, i)) => r.out = "true"

C10_Witness ==
    /\ \A i \in 2 .. Len(chain) : BlockOk(Self, i)
    /\ \E i \in 2 .. Len(chain) : ~LeadingZeros(Blk(i).hash, difficulty)
    /\ ret[Main].kind = "is_chain_valid" /\ ret[Main].ok

\* The step assigned to attributes of the genesis block other than its hash,
\* and changed nothing else.
GenesisChanged ==
    /\ chain' = chain
    /\ heap' # heap
    /\ Len(heap') = Len(heap)
    /\ \A id \in 1 .. Len(heap) : id # chain[1] => heap'[id] = heap[id]
    /\ heap'[chain[1]].hash = heap[chain[1]].hash

\* C11: the result of is_chain_valid() depends on the genesis block only
\* through its stored hash: a change of the genesis block's payload,
\* timestamp, nonce, index or previous_hash that leaves its stored hash alone
\* never changes what is_chain_valid() returns, on a valid and on an invalid
\* chain.
C11_GenesisTrusted ==
    [][GenesisChanged => is_chain_valid(Self') = is_chain_valid(Self)]_vars

C11_Witness ==
    /\ Len(chain) = 3
    /\ Len(tampers) = 1 /\ tampers[1].i = 1 /\ tampers[1].op = "nonce"
    /\ tampers[1].valid_before = "true"
    /\ Blk(1).hash # calculate_hash(Blk(1))
    /\ ret[Main].kind = "is_chain_valid" /\ ret[Main].ok

\* The stored hash of b is the digest of its fields.
Sealed(b) == CanHash(b) /\ b.hash = calculate_hash(b)

\* C5 as stated: when mine_block(d) returns, the value returned is the
\* block's stored hash, its first d characters are all "0", and the stored
\* hash equals calculate_hash() of the block's current fields.
C5_Original ==
    \A t \in Threads :
        ret[t].kind = "mine_block" =>
            LET b == heap[ret[t].block]
            IN  /\ ret[t].hash = b.hash
                /\ LeadingZeros(b.hash, entry[t].d)
                /\ Sealed(b)

\* C5, amended: when mine_block(d) returns, the value returned is the block's
\* stored hash and its first d characters are all "0"; the stored hash equals
\* calculate_hash() of the current fields provided it did so when mine_block
\* was called (as for every block fresh from its constructor) or the loop
\* body ran at least once.
C5_MinePostcondition ==
    \A t \in Threads :
        ret[t].kind = "mine_block" =>
            LET b == heap[ret[t].block]
            IN  /\ ret[t].hash = b.hash
                /\ LeadingZeros(b.hash, entry[t].d)
                /\ (Sealed(entry[t].block) \/ b.nonce > entry[t].block.nonce) => Sealed(b)

C5_Witness ==
    /\ ret[Main].kind = "mine_block"
    /\ entry[Main].d >= 3
    /\ Sealed(entry[Main].block)
    /\ heap[ret[Main].block].nonce > entry[Main].block.nonce + 1

\* The attributes of a block other than nonce and hash.
Content(b) == << b.index, b.previous_hash, b.transactions, b.timestamp >>

\* C12: mine_block changes only the block's nonce and hash: at every step of
\* the search and when it returns, index, previous_hash, payload and
\* timestamp are those the block had when mine_block was called.
C12_MineChangesNonceAndHash ==
    \A t \in Threads :
        /\ frame[t].pc = "l49" =>
              /\ Content(heap[frame[t].self]) = Content(entry[t].block)
              /\ heap[frame[t].self].nonce >= entry[t].block.nonce
        /\ ret[t].kind = "mine_block" =>
              Content(heap[ret[t].block]) = Content(entry[t].block)

C12_Witness ==
    /\ ret[Main].kind = "mine_block"
    /\ heap[ret[Main].block].nonce >= entry[Main].block.nonce + 2
    /\ heap[ret[Main].block].hash # entry[Main].block.hash
    /\ entry[Main].block.transactions = PyTuple(<<"A">>)

\* The loop of mine_block(d), entered on block b, leaves by its return within
\* k passes: the loop test fails on b, or the body runs without raising and
\* the loop leaves within k - 1 passes from there.
RECURSIVE SearchEnds(_, _, _)
SearchEnds(b, d, k) ==
    \/ MeetsTarget(b.hash, d)
    \/ k > 0 /\ CanHash(b) /\ SearchEnds(MineIter(b), d, k - 1)

\* C13 as stated: for every non-negative d, mine_block(d) eventually returns
\* a hash and never raises.  The digests of a block repeat after DigestSpace
\* consecutive nonces, so a search that does not return within DigestSpace
\* passes never returns.
C13_Original ==
    \A t \in Threads :
        (frame[t].pc = "l49" /\ frame[t].difficulty >= 0) =>
            SearchEnds(heap[frame[t].self], frame[t].difficulty, DigestSpace)

\* The five fields calculate_hash serializes.
Hashed(b) == << b.index, b.previous_hash, b.transactions, b.timestamp, b.nonce >>

\* Values the attribute hash of a block can hold: not yet set, a digest
\* stored in some block, the all-zero string.
StoredHashes == {<< >>, Target(HashLen)} \cup {heap[id].hash : id \in 1 .. Len(heap)}

\* C14: calculate_hash is a function of index, previous_hash, payload,
\* timestamp and nonce alone: blocks with equal five fields get the same
\* digest whatever hash they store and whatever was done to them before, the
\* value a call returns is that digest, and a call changes no field of any
\* block.
C14_HashIsPure ==
    /\ [](/\ \A id \in 1 .. Len(heap), h \in StoredHashes :
                CanHash(heap[id]) =>
                    calculate_hash([heap[id] EXCEPT !.hash = h]) = calculate_hash(heap[id])
          /\ \A id1, id2 \in 1 .. Len(heap) :
                (CanHash(heap[id1]) /\ Hashed(heap[id1]) = Hashed(heap[id2]))
                    => calculate_hash(heap[id1]) = calculate_hash(heap[id2])
          /\ \A t \in Threads, h \in StoredHashes :
                ret[t].kind = "calculate_hash" =>
                    ret[t].hash = calculate_hash([heap[ret[t].block] EXCEPT !.hash = h]))
    /\ [][\A t \in Threads :
            (ret'[t].kind = "calculate_hash" /\ ret'[t] # ret[t]) => heap' = heap]_vars

C14_Witness ==
    /\ ret[Main].kind = "calculate_hash"
    /\ heap[ret[Main].block].nonce > 0
    /\ heap[ret[Main].block].hash # ret[Main].hash
    /\ Len(tampers) = 2 /\ tampers[1].op = "mine_block" /\ tampers[2].op = "transactions"

\* Caller t is inside add_block with a payload that cannot be serialized.
Unserializable(t) ==
    frame[t].caller = "add_block" /\ ~JsonSerializable(frame[t].transactions)

\* C15: add_block called with a payload that cannot be serialized ends with
\* the TypeError of the hash computation in the constructor reaching its
\* caller: it gets neither to mining nor to the append, and from the call to
\* the raise no block is appended and no existing block changes.
C15_UnserializableLeavesChain ==
    /\ [](\A t \in Threads :
            /\ Unserializable(t) => frame[t].pc \in {"l87", "l89"}
            /\ ret[t].exc = "TypeError" =>
                  /\ Len(chain) = entry[t].len
                  /\ Blk(Len(chain)).hash = entry[t].tip_hash)
    /\ [][\A t \in Threads :
            (Unserializable(t) \/ Unserializable(t)') =>
                /\ chain' = chain
                /\ heap' = heap
                /\ (Unserializable(t) /\ frame'[t].pc = "idle")
                      => ret'[t] = Raised("TypeError")]_vars

C15_Witness ==
    /\ ret[Main].kind = "raise" /\ ret[Main].exc = "TypeError"
    /\ entry[Main].len = 2
    /\ Len(chain) = 2 /\ Len(heap) = 2
    /\ AllIdle

\* C16 as stated: a Block constructed with a timestamp stores exactly that
\* timestamp, for every number including 0; one constructed without stores
\* a reading of the clock; either way its nonce is 0 and its stored hash is
\* the digest of its fields.
C16_Original ==
    \A t \in Threads :
        ret[t].kind = "Block" =>
            LET b == heap[ret[t].block]
            IN  /\ IF entry[t].timestamp.none
                   THEN b.timestamp \in Clock
                   ELSE b.timestamp = entry[t].timestamp.v
                /\ b.nonce = 0
                /\ Sealed(b)

\* Caller t got through the constructor in its latest add_block call.
Built(t) == entry[t].block.hash # << >>

\* The latest add_block calls of the two callers read the same chain length
\* at line 86 and, at line 87, the hash of the block that was the tip then:
\* neither appended before the other had read both.
ReadSameTip ==
    /\ Built(Main) /\ Built(Other)
    /\ entry[Main].len = entry[Other].len
    /\ \A t \in Threads : entry[t].block.previous_hash = entry[t].tip_hash

\* Two blocks of the chain carry the same index.
DuplicateIndex ==
    \E i, j \in 1 .. Len(chain) : i < j /\ Blk(i).index = Blk(j).index

\* C17: when two add_block calls overlap so that both read the chain length
\* n and the tip hash before either appends, both blocks are appended, with
\* index n and the previous_hash of that tip, and is_chain_valid() then
\* returns false, at the second of them (SHA-256 being collision-free, the
\* first of them does not have the digest of the tip).  A chain with a
\* repeated index or an invalid chain is reached only when both callers have
\* called add_block: with one caller it is unreachable.
C17_InterleavedAddBlock ==
    /\ (AllIdle /\ ReadSameTip) =>
          LET n == entry[Main].len
          IN  /\ Len(chain) = n + 2
              /\ {Blk(n + 1), Blk(n + 2)} =
                     {heap[id] : id \in {k \in 1 .. Len(heap) :
                                            /\ k \notin Range(SubSeq(chain, 1, n))
                                            /\ heap[k].index = n}}
              /\ \A i \in {n + 1, n + 2} :
                    /\ Blk(i).index = n
                    /\ Blk(i).previous_hash = Blk(n).hash
              /\ Blk(n + 1).hash # Blk(n).hash =>
                    is_chain_valid(Self) = [out |-> "false", at |-> n + 2]
    /\ (DuplicateIndex \/ (AllIdle /\ is_chain_valid(Self).out # "true"))
          => (Called(Main) /\ Called(Other))

C17_Witness ==
    /\ AllIdle /\ ReadSameTip
    /\ entry[Main].len = 2 /\ Len(chain) = 4
    /\ Blk(3).transactions # Blk(4).transactions
    /\ Blk(3).hash # Blk(2).hash
    /\ ret[Main].kind = "is_chain_valid" /\ ~ret[Main].ok /\ ret[Main].at = 4

\* C18: with add_block called sequentially and no direct assignment, every
\* block's index is its 0-based position in the chain, the genesis block at
\* position 0: the indices are unique and increase by 1 from block to block.
C18_IndexIsPosition ==
    /\ \A i \in 1 .. Len(chain) : Blk(i).index = i - 1
    /\ \A i \in 2 .. Len(chain) : Blk(i).index = Blk(i - 1).index + 1
    /\ ~DuplicateIndex

C18_Witness ==
    /\ Len(chain) = 3
    /\ << Blk(1).index, Blk(2).index, Blk(3).index >> = << 0, 1, 2 >>
    /\ ret[Main].kind = "get_latest_block" /\ heap[ret[Main].block].index = 2

\* The digest block b gets with nonce n.
DigestAt(b, n) == calculate_hash([b EXCEPT !.nonce = n])

\* C19: mine_block(d) tests the stored hash before it touches the nonce.  If
\* the hash stored on entry begins with d zeros (always so for d = 0) it
\* returns with nonce and hash as they were.  Otherwise, on a block whose
\* stored hash was its digest on entry, it returns with the smallest nonce
\* above the entry nonce whose digest begins with d zeros and with that
\* digest as hash; every pass of the loop moves to the next nonce and stores
\* its digest, so each nonce in between is tried once, in increasing order.
C19_SearchOrder ==
    /\ [](\A t \in Threads :
            ret[t].kind = "mine_block" =>
                LET e == entry[t].block
                    b == heap[ret[t].block]
                    d == entry[t].d
                IN  /\ d = 0 => LeadingZeros(e.hash, d)
                    /\ LeadingZeros(e.hash, d) => (b.nonce = e.nonce /\ b.hash = e.hash)
                    /\ (~LeadingZeros(e.hash, d) /\ Sealed(e)) =>
                          /\ b.nonce > e.nonce
                          /\ b.hash = DigestAt(e, b.nonce)
                          /\ LeadingZeros(DigestAt(e, b.nonce), d)
                          /\ \A n \in e.nonce + 1 .. b.nonce - 1 :
                                ~LeadingZeros(DigestAt(e, n), d))
    /\ [][\A t \in Threads :
            (frame[t].pc = "l49" /\ frame'[t].pc = "l49" /\ heap' # heap) =>
                LET b == heap[frame[t].self]
                    b1 == heap'[frame[t].self]
                IN  /\ ~LeadingZeros(b.hash, frame[t].difficulty)
                    /\ b1.nonce = b.nonce + 1
                    /\ b1.hash = DigestAt(b, b.nonce + 1)]_vars

C19_Witness ==
    /\ ret[Main].kind = "mine_block"
    /\ entry[Main].block.nonce > 0
    /\ Sealed(entry[Main].block)
    /\ ~LeadingZeros(entry[Main].block.hash, entry[Main].d)
    /\ heap[ret[Main].block].nonce >= entry[Main].block.nonce + 3

====
